---- MODULE Spec2Model ----
(***************************************************************************)
(* The staged parcel-qualification pipeline of backyard-builder-finder:    *)
(* SearchService.executeSearch (apps/api/src/services/searchService.ts),   *)
(* the in-memory progress registry of routes/search.ts, and the external   *)
(* collaborators (parcel store, pool detector, adjudication gateway) as    *)
(* nondeterministic environments.                                          *)
(*                                                                         *)
(* One action is one turn of the Node event loop: the code that runs from  *)
(* the completion of an awaited call up to the next await.  Areas and the  *)
(* threshold are integers; for integers  |a - t| <= t * 0.1  in IEEE       *)
(* doubles is the same as  10 * |a - t| <= t  (0.1 rounds upwards).        *)
(* Money is counted in cents.                                              *)
(***************************************************************************)
EXTENDS Integers, Sequences, FiniteSets, TLC

\* ---------------------------------------------------------------- bounds
NumParcels == 2
MaxParcels == 6
MaxFaults == 1
MaxConns == 2
MaxSearches == 2
GridMax == 2

\* ids of the parcels table; the first NumParcels of them vary between runs
PIDs == 1..MaxParcels

\* ------------------------------------------------------ program constants
MIN_EXISTING_PARCELS == 10
REAR_BATCH_SIZE == 10
CV_BATCH_SIZE == 5
LLM_FLUSH_SIZE == 5
LLM_BUDGET_PER_SEARCH == 100

\* SQL NULL in the numeric column parcels.rear_free_sqft
NoSqft == -1

Tri == {"null", "true", "false"}
Bool2Tri(b) == IF b THEN "true" ELSE "false"

Abs(x) == IF x < 0 THEN -x ELSE x
Min(a, b) == IF a < b THEN a ELSE b

\* ----------------------------------------------------------------- state
VARIABLES
    parcels,        \* table parcels: id -> row
    cv_detections,  \* table cv_detections (kind = 'pool'): id -> "none" | "pool" | "nopool" | "stale"
    api_usage,      \* number of rows inserted into api_usage
    aoiOthers,      \* parcels in the AOI that the attribute filters exclude
    searchStates,   \* searchStates[searchId] of the running search
    conns,          \* open progress connections (reply.raw objects)
    nextConn,       \* connections opened so far
    timers,         \* armed 60 s cleanup timers
    received,       \* connection -> [from: snapshots emitted before its attach,
                    \*                events: the events written to it, in order]
    pc,             \* the await executeSearch is suspended at
    request,        \* the parsed SearchRequest
    rear,           \* locals of calculateRearYardsInBatches
    sqlResults,     \* parcels in the pipeline (ParcelWithRearYard[])
    cv,             \* locals of executeCVAnalysis
    llm,            \* locals of executeLLMAnalysis
    emitted,        \* snapshots stored in searchStates[searchId].progress, in order
    cvCalls,        \* id -> invocations of cvService.detectPools so far
    detected,       \* ids for which a fresh detection has returned
    llmCalls,       \* invocations of llmService.analyzeParcel of this search
    verdicts,       \* id -> verdict returned by a successful adjudication of this search
    faults,         \* failures the environment has injected into this search
    observed,       \* [cvFailed: ids whose detector call failed,
                    \*  lostWrites: ids whose verdict upsert was rejected,
                    \*  counted: parcels of the AOI in the store when they were counted,
                    \*  countFailed: the count query failed,
                    \*  enrichment: "none" | "requested" | "failed" | "returned",
                    \*  flushed: ids handed to batchUpdateParcelAnalysis,
                    \*  usageHanded: records handed to batchInsertUsageRecords,
                    \*  llmFailed: ids whose adjudication call threw,
                    \*  rearCalled: ids for which the rear-yard rpc was invoked,
                    \*  rearFailed: those whose rpc threw or returned nothing,
                    \*  prior: id -> parcels.qualifies when the search was started]
    searchNo,       \* searches started so far
    edgeIn,         \* input of the classifier under test
    edgeOut,        \* its result
    reply,          \* the last reply of POST /search, with the body it answers
    gwIn,           \* a request to the llm_summarize function and its environment
    gwOut,          \* the function's response
    iouIn,          \* the arguments of calculateIoU
    iouOut,         \* its result
    config          \* the configuration parsed from the environment at startup

storeVars == <<parcels, cv_detections, api_usage, aoiOthers>>
regVars == <<searchStates, conns, nextConn, timers, received>>
runVars == <<pc, request, rear, sqlResults, cv, llm>>
histVars == <<emitted, cvCalls, detected, llmCalls, verdicts, faults, observed, searchNo>>
edgeVars == <<edgeIn, edgeOut>>
httpVars == <<reply>>
gwVars == <<gwIn, gwOut>>
iouVars == <<iouIn, iouOut>>
cfgVars == <<config>>
sideVars == <<edgeVars, httpVars, gwVars, iouVars, cfgVars>>
vars == <<storeVars, regVars, runVars, histVars, sideVars>>

\* ------------------------------------------------------------- snapshots
Stages == <<"starting", "sql_filter", "cv_analysis", "llm_analysis", "complete">>

StageRank(s) == CHOOSE i \in 1..Len(Stages) : Stages[i] = s

Snap(stage, processed, total) ==
    [stage |-> stage, processed |-> processed, total |-> total,
     hasResults |-> FALSE, results |-> <<>>, error |-> "undefined"]

SnapResults(stage, processed, total, results) ==
    [stage |-> stage, processed |-> processed, total |-> total,
     hasResults |-> TRUE, results |-> results, error |-> "undefined"]

\* the error snapshot: stage 'error', 0/0, 'Search failed' and the error string
ErrorSnap(error) == [Snap("error", 0, 0) EXCEPT !.error = error]

\* ------------------------------------------------------------ sequences
RECURSIVE SeqOfSet(_)
SeqOfSet(S) ==
    IF S = {} THEN <<>>
    ELSE LET m == CHOOSE x \in S : \A y \in S : x <= y
         IN <<m>> \o SeqOfSet(S \ {m})

Range(s) == {s[i] : i \in 1..Len(s)}
Ids(s) == {s[i].id : i \in 1..Len(s)}

\* ------------------------------------------------------- pure functions
\* JavaScript truthiness of a number: 0 (and null) are falsy
Truthy(n) == n # 0 /\ n # NoSqft

\* tolerance test of identifyEdgeCases: Math.abs(a - threshold) <= threshold * 0.1
WithinTolerance(a, threshold) == 10 * Abs(a - threshold) <= threshold

\* the filter predicate of identifyEdgeCases
IsEdgeCase(parcel, filters) ==
    \/ Truthy(parcel.rear_free_sqft)
         /\ WithinTolerance(parcel.rear_free_sqft, filters.minRearSqft)
    \/ parcel.rear_yard_approximate
    \/ filters.hasPool # "undefined" /\ parcel.has_pool # filters.hasPool

identifyEdgeCases(ps, req) ==
    SelectSeq(ps, LAMBDA parcel : IsEdgeCase(parcel, req.filters))

Distance(parcel, threshold) == Abs(parcel.rear_free_sqft - threshold)

\* Array.prototype.sort with the comparator aDistance - bDistance (stable)
RECURSIVE InsertByDistance(_, _, _)
InsertByDistance(s, x, threshold) ==
    IF s = <<>> THEN <<x>>
    ELSE IF Distance(Head(s), threshold) <= Distance(x, threshold)
         THEN <<Head(s)>> \o InsertByDistance(Tail(s), x, threshold)
         ELSE <<x>> \o s

RECURSIVE SortByDistance(_, _)
SortByDistance(s, threshold) ==
    IF s = <<>> THEN <<>>
    ELSE InsertByDistance(SortByDistance(SubSeq(s, 1, Len(s) - 1), threshold),
                          s[Len(s)], threshold)

\* the edge cases left in query order
prioritizeEdgeCasesUnsorted(edgeCases, threshold) == edgeCases

prioritizeEdgeCases(edgeCases, threshold) == SortByDistance(edgeCases, threshold)

\* the budget test with > for >=
BudgetExhaustedStrict(totalCost) == totalCost > config.LLM_BUDGET_PER_SEARCH

\* totalCost >= config.LLM_BUDGET_PER_SEARCH
BudgetExhausted(totalCost) == totalCost >= config.LLM_BUDGET_PER_SEARCH

\* the short circuit on an empty candidate set left out
NoParcelsNever(results) == FALSE

\* sqlResults.length === 0
NoParcels(results) == Len(results) = 0

\* applyFilters: of the attribute filters only hasPool is modelled per parcel
MatchesFilters(row, filters) ==
    filters.hasPool = "undefined" \/ row.has_pool = filters.hasPool

\* rows returned by .from('parcels').select('*').overlaps(...) with the filters
QueryRows(filters) ==
    SeqOfSet({p \in PIDs : parcels[p].in_store /\ MatchesFilters(parcels[p], filters)})

\* getExistingParcelsCount: every parcel of the AOI, filtered or not
ExistingParcelsCount ==
    Cardinality({p \in PIDs : parcels[p].in_store}) + aoiOthers

\* the map callback taking the estimator's approximate flag as reported
RearYardOfAsReported(p, out) ==
    LET row == parcels[p]
        base == [id |-> p, has_pool |-> row.has_pool]
    IN IF row.rear_free_sqft # NoSqft
       THEN base @@ [rear_free_sqft |-> row.rear_free_sqft,
                     rear_yard_approximate |-> FALSE]
       ELSE IF out.kind = "data"
       THEN base @@ [rear_free_sqft |-> IF Truthy(out.free_sqft) THEN out.free_sqft ELSE 0,
                     rear_yard_approximate |-> out.approximate]
       ELSE base @@ [rear_free_sqft |-> 0, rear_yard_approximate |-> TRUE]

\* one element of calculateRearYardsInBatches' batch.map; out is the outcome of
\* the rpc estimate_rear_yard_free_area: [kind: "data" | "nodata" | "throw", ...]
RearYardOf(p, out) ==
    LET row == parcels[p]
        base == [id |-> p, has_pool |-> row.has_pool]
    IN IF row.rear_free_sqft # NoSqft
       THEN base @@ [rear_free_sqft |-> row.rear_free_sqft,
                     rear_yard_approximate |-> FALSE]
       ELSE IF out.kind = "data"
       THEN base @@ [rear_free_sqft |-> IF Truthy(out.free_sqft) THEN out.free_sqft ELSE 0,
                     \* rearYardResult?.approximate || true
                     rear_yard_approximate |-> out.approximate \/ TRUE]
       ELSE base @@ [rear_free_sqft |-> 0, rear_yard_approximate |-> TRUE]

\* results.filter(parcel => parcel.rear_free_sqft >= minRearSqft)
MinRearFilter(ps, minRearSqft) ==
    SelectSeq(ps, LAMBDA parcel : parcel.rear_free_sqft >= minRearSqft)

\* getFinalResults: the rows of the store for the surviving ids
FinalResults(ids) ==
    LET found == SeqOfSet({p \in ids : parcels[p].in_store})
    IN [k \in 1..Len(found) |->
          [id |-> found[k],
           rearFreeSqft |-> parcels[found[k]].rear_free_sqft,
           hasPool |-> parcels[found[k]].has_pool,
           qualifies |-> parcels[found[k]].qualifies]]

\* detectionMap entry from the cv_detections rows of the validity window:
\* d.confidence > 0.5, or undefined when no row is found
DetectionEntry(det) ==
    IF det = "pool" THEN "true" ELSE IF det = "nopool" THEN "false" ELSE "undefined"

\* has_pool computed from a detectPools result:
\* cvResult.pools.length > 0 && cvResult.pools[0].confidence > 0.5;
\* detectPools turns a transport or HTTP failure into { pools: [] }
HasPoolOf(outcome) ==
    IF outcome = "pool" THEN "true"
    ELSE IF outcome \in {"nopool", "fail"} THEN "false"
    ELSE "kept"   \* "malformed": reading pools throws, the parcel is returned as is

\* ------------------------------------------------- executeSearch, by turns
\* The turn's view of the pipeline: the locals, the snapshots it hands to
\* onProgress (emits) and the detector calls it issues (issued).
Machine ==
    [pc |-> pc, rear |-> rear, sqlResults |-> sqlResults, cv |-> cv, llm |-> llm,
     emits |-> <<>>, issued |-> {}, llmCalls |-> llmCalls]

NoRear == [rows |-> <<>>, i |-> 1, results |-> <<>>]

NoCv == [detectionMap |-> [p \in PIDs |-> "undefined"], i |-> 1, inflight |-> {},
         outcome |-> [p \in PIDs |-> "pending"], results |-> <<>>, processed |-> 0]

NoLlm == [sorted |-> <<>>, idx |-> 1, processed |-> 0, totalCost |-> 0,
          updates |-> <<>>, tail |-> FALSE]

\* The progress callback of POST /search throws a TypeError when
\* searchStates[searchId] has been deleted; so do executeSearch's catch block
\* and the route's catch handler: the rejection is unhandled.
Thrown(m) == [m EXCEPT !.pc = "aborted"]

\* A stage throws error: executeSearch's catch emits an error snapshot
\* (error instanceof Error ? error.message : 'Unknown error') and rethrows, the
\* route's catch handler stores a second one (error.message).  Whether the
\* store client's error object is an Error depends on the client library.
Failed(m, alive, message, isError) ==
    IF alive
    THEN [m EXCEPT !.pc = "failed",
                   !.emits = @ \o <<ErrorSnap(IF isError THEN message ELSE "Unknown error"),
                                    ErrorSnap(message)>>]
    ELSE [m EXCEPT !.pc = "failed"]

\* await this.getFinalResults(...)
EnterFinal(m) == [m EXCEPT !.pc = "final"]

\* the loop's end without the flush of the remaining updates
AfterLoopNoFlush(m) == EnterFinal(m)

\* after the for loop of executeLLMAnalysis: "Handle any remaining updates"
AfterLoop(m) ==
    IF Len(m.llm.updates) > 0
    THEN [m EXCEPT !.pc = "llm_flush", !.llm.tail = TRUE]
    ELSE EnterFinal(m)

\* the iteration without the budget check
IterLLMUnchecked(m) ==
    IF m.llm.idx > Len(m.llm.sorted) THEN AfterLoop(m)
    ELSE [m EXCEPT !.pc = "llm_call",
                   !.llmCalls = Append(@, [id |-> m.llm.sorted[m.llm.idx].id,
                                          costBefore |-> m.llm.totalCost])]

\* head of one iteration of the for loop: the budget check, then the call
IterLLM(m) ==
    IF m.llm.idx > Len(m.llm.sorted) THEN AfterLoop(m)
    ELSE IF BudgetExhausted(m.llm.totalCost) THEN AfterLoop(m)
    ELSE [m EXCEPT !.pc = "llm_call",
                   !.llmCalls = Append(@, [id |-> m.llm.sorted[m.llm.idx].id,
                                          costBefore |-> m.llm.totalCost])]

\* the loop's progress snapshot with the stage name of the previous stage
LLMProgressWrongStage(m, alive) ==
    LET m1 == IF alive
              THEN [m EXCEPT !.emits = Append(@, Snap("cv_analysis", m.llm.processed,
                                                      Len(m.llm.sorted)))]
              ELSE [m EXCEPT !.llm.processed = @ + 1]
    IN IterLLM([m1 EXCEPT !.llm.idx = @ + 1])

\* onProgress at the end of the loop body, inside its try: a throwing
\* callback lands in the catch (processed++); then the next iteration
LLMProgress(m, alive) ==
    LET m1 == IF alive
              THEN [m EXCEPT !.emits = Append(@, Snap("llm_analysis", m.llm.processed,
                                                      Len(m.llm.sorted)))]
              ELSE [m EXCEPT !.llm.processed = @ + 1]
    IN IterLLM([m1 EXCEPT !.llm.idx = @ + 1])

\* executeSearch after executeCVAnalysis has returned
AfterCV(m) ==
    LET edgeCases == identifyEdgeCases(m.cv.results, request)
    IN IF Len(edgeCases) > 0
       THEN IterLLM([m EXCEPT
                !.emits = Append(@, Snap("llm_analysis", 0, Len(edgeCases))),
                !.llm = [NoLlm EXCEPT !.sorted =
                           prioritizeEdgeCases(edgeCases, request.filters.minRearSqft)]])
       ELSE EnterFinal(m)

\* the slice one parcel longer than BATCH_SIZE
CvBatchWide(m) ==
    SubSeq(m.sqlResults, m.cv.i, Min(m.cv.i + CV_BATCH_SIZE, Len(m.sqlResults)))

\* parcels.slice(i, i + BATCH_SIZE)
CvBatch(m) ==
    SubSeq(m.sqlResults, m.cv.i, Min(m.cv.i + CV_BATCH_SIZE - 1, Len(m.sqlResults)))

\* batch.map(async parcel => ...) up to each call's first await
IssueBatch(m) ==
    LET ids == Ids(CvBatch(m))
        need == {p \in ids : m.cv.detectionMap[p] = "undefined"}
    IN [m EXCEPT !.pc = "cv_batch",
                 !.issued = need,
                 !.cv.inflight = need,
                 !.cv.outcome = [p \in PIDs |->
                     IF p \in ids \ need THEN m.cv.detectionMap[p] ELSE "pending"]]

\* the parcels of the batch as Promise.all returns them
BatchResults(m) ==
    LET batch == CvBatch(m)
    IN [k \in 1..Len(batch) |->
          IF m.cv.outcome[batch[k].id] = "kept" THEN batch[k]
          ELSE [batch[k] EXCEPT !.has_pool = m.cv.outcome[batch[k].id]]]

\* updates of batchUpdateParcels: the results whose has_pool is set
CvUpdates(m) == SelectSeq(BatchResults(m), LAMBDA r : r.has_pool # "null")

\* after batchUpdateParcels: onProgress, then the next batch or the next stage
AfterCVBatch(m, alive) ==
    IF ~alive THEN Thrown(m)
    ELSE LET m1 == [m EXCEPT
                      !.emits = Append(@, Snap("cv_analysis", m.cv.processed,
                                               Len(m.sqlResults))),
                      !.cv.i = @ + CV_BATCH_SIZE]
         IN IF m1.cv.i <= Len(m1.sqlResults) THEN IssueBatch(m1) ELSE AfterCV(m1)

\* executeSearch after executeSQLFiltering has returned r
AfterSQL(m, alive, r) ==
    IF ~alive THEN Thrown(m)
    ELSE LET m1 == [m EXCEPT !.sqlResults = r,
                             !.emits = Append(@, Snap("sql_filter", Len(r), Len(r)))]
         IN IF NoParcels(r)
            THEN [m1 EXCEPT !.pc = "done",
                            !.emits = Append(@, SnapResults("complete", 0, 0, <<>>))]
            ELSE [m1 EXCEPT !.pc = "cv_cache",
                            !.emits = Append(@, Snap("cv_analysis", 0, Len(r))),
                            !.cv = NoCv]

\* broadcastProgress without a write: no consumer is sent the snapshot
broadcastProgressMute(recv, clients, progress) == recv

\* broadcastProgress: the snapshot is written to every client of the search
\* (a client whose socket is destroyed has left conns and clients)
broadcastProgress(recv, clients, progress) ==
    [c \in DOMAIN recv |->
        IF c \in clients THEN [recv[c] EXCEPT !.events = Append(@, progress)]
        ELSE recv[c]]

\* the progress callback called once per snapshot of the turn
RECURSIVE BroadcastAll(_, _, _)
BroadcastAll(recv, clients, emits) ==
    IF emits = <<>> THEN recv
    ELSE BroadcastAll(broadcastProgress(recv, clients, Head(emits)), clients, Tail(emits))

\* the effect of a turn on the pipeline, the registry and the history
Apply(m) ==
    /\ pc' = m.pc
    /\ rear' = m.rear
    /\ sqlResults' = m.sqlResults
    /\ cv' = m.cv
    /\ llm' = m.llm
    /\ llmCalls' = m.llmCalls
    /\ emitted' = emitted \o m.emits
    /\ searchStates' = IF m.emits = <<>> THEN searchStates
                       ELSE [searchStates EXCEPT !.progress = m.emits[Len(m.emits)]]
    /\ received' = BroadcastAll(received, searchStates.clients, m.emits)
    /\ cvCalls' = [p \in PIDs |-> cvCalls[p] + IF p \in m.issued THEN 1 ELSE 0]

\* ---------------------------------------------------------------- actions
Alive == searchStates.exists
CanFail == faults < MaxFaults
Terminal == {"done", "failed", "aborted"}

NothingObserved == [cvFailed |-> {}, lostWrites |-> {}, counted |-> 0,
                    countFailed |-> FALSE, enrichment |-> "none", flushed |-> {},
                    usageHanded |-> 0, llmFailed |-> {}, rearCalled |-> {},
                    rearFailed |-> {}, prior |-> [p \in PIDs |-> "null"]]

\* no connection has been opened
NoEvents == [c \in 1..MaxConns |-> [from |-> 0, events |-> <<>>]]

\* POST /search: the registry entry, then executeSearch up to its first await
\* (the callback has already replaced the starting snapshot by sql_filter 0/0)
StartSearchBody(req) ==
    /\ request' = req
    /\ searchStates' = [exists |-> TRUE, clients |-> {},
                        progress |-> Snap("sql_filter", 0, 0)]
    /\ emitted' = <<Snap("starting", 0, 0), Snap("sql_filter", 0, 0)>>
    /\ pc' = "count"
    /\ rear' = NoRear
    /\ sqlResults' = <<>>
    /\ cv' = NoCv
    /\ llm' = NoLlm
    /\ llmCalls' = <<>>
    /\ verdicts' = [p \in PIDs |-> "none"]
    /\ faults' = 0
    /\ observed' = [NothingObserved EXCEPT
                      !.prior = [p \in PIDs |-> parcels[p].qualifies]]
    /\ searchNo' = searchNo + 1
    /\ conns' = {}
    /\ nextConn' = 0
    /\ timers' = 0
    /\ received' = NoEvents
    /\ UNCHANGED <<storeVars, cvCalls, detected, edgeVars, gwVars, iouVars, cfgVars>>

StartSearch(req) == pc = "idle" /\ StartSearchBody(req) /\ UNCHANGED httpVars

\* GeometrySchema: type one of the four names, coordinates an array
GeometryTypes == {"Point", "LineString", "Polygon", "MultiPolygon"}

\* SearchRequestSchema.parse(request.body) returns (TRUE) or throws a ZodError
ParseSucceeds(body) ==
    /\ body.aoi \in GeometryTypes
    /\ body.filters \in {"empty", "minRearSqft", "minRearSqftNegative"}

\* the parsed request: minRearSqft is z.number().default(100), any number
ParsedRequest(body) ==
    [filters |-> [minRearSqft |-> IF body.filters = "empty" THEN 100
                                  ELSE IF body.filters = "minRearSqft" THEN 10
                                  ELSE -5,
                  hasPool |-> "undefined"]]

\* the status of the reply to a thrown error: error.statusCode || 500, and a
\* ZodError has no statusCode
ErrorStatus == 500

\* POST /search with an arbitrary body: parse, then as StartSearch
PostSearch(body) ==
    /\ pc = "idle"
    /\ IF ParseSucceeds(body)
       THEN /\ StartSearchBody(ParsedRequest(body))
            /\ reply' = [sent |-> TRUE, status |-> 200, hasSearchId |-> TRUE,
                         body |-> body]
       ELSE /\ reply' = [sent |-> TRUE, status |-> ErrorStatus, hasSearchId |-> FALSE,
                         body |-> body]
            /\ UNCHANGED <<storeVars, regVars, runVars, histVars, edgeVars, gwVars,
                           iouVars, cfgVars>>

\* a later POST /search, once the previous search has ended
NextSearch(req) ==
    /\ pc \in Terminal
    /\ searchNo < MaxSearches
    /\ StartSearchBody(req)
    /\ UNCHANGED httpVars

\* the threshold test with <= for <
InsufficientParcelsInclusive(existingParcelsCount) ==
    existingParcelsCount <= MIN_EXISTING_PARCELS

\* existingParcelsCount < 10
InsufficientParcels(existingParcelsCount) ==
    existingParcelsCount < MIN_EXISTING_PARCELS

\* getExistingParcelsCount returns (a failed count is taken as 0)
CountReturn(ok) ==
    /\ pc = "count"
    /\ ok \/ CanFail
    /\ LET count == IF ok THEN ExistingParcelsCount ELSE 0
       IN /\ pc' = IF InsufficientParcels(count) THEN "enrich" ELSE "query"
          /\ observed' = [observed EXCEPT
                 !.counted = ExistingParcelsCount,
                 !.countFailed = ~ok,
                 !.enrichment = IF InsufficientParcels(count) THEN "requested" ELSE "none"]
    /\ faults' = IF ok THEN faults ELSE faults + 1
    /\ UNCHANGED <<storeVars, regVars, request, rear, sqlResults, cv, llm,
                   emitted, cvCalls, detected, llmCalls, verdicts, searchNo, sideVars>>

\* a row as RealDataService.processParcels upserts it (onConflict: 'apn')
EnrichedRow == [in_store |-> TRUE, rear_free_sqft |-> NoSqft,
                has_pool |-> "null", qualifies |-> "null"]

\* realDataService.fetchParcelsForArea returns or throws (caught and logged)
EnrichReturn(ok, upserted) ==
    /\ pc = "enrich"
    /\ ok \/ (CanFail /\ upserted = {})
    /\ parcels' = [p \in PIDs |-> IF p \in upserted THEN EnrichedRow ELSE parcels[p]]
    /\ pc' = "query"
    /\ faults' = IF ok THEN faults ELSE faults + 1
    /\ observed' = [observed EXCEPT !.enrichment = IF ok THEN "returned" ELSE "failed"]
    /\ UNCHANGED <<cv_detections, api_usage, aoiOthers, regVars, request, rear,
                   sqlResults, cv, llm, emitted, cvCalls, detected, llmCalls,
                   verdicts, searchNo, sideVars>>

\* the parcel query of executeSQLFiltering returns
QueryReturn(ok) ==
    /\ pc = "query"
    /\ ok \/ CanFail
    /\ LET rows == QueryRows(request.filters)
       IN IF ~ok THEN \E isError \in BOOLEAN :
                          Apply(Failed(Machine, Alive, "query failed", isError))
          ELSE IF Len(rows) = 0 THEN Apply(AfterSQL(Machine, Alive, <<>>))
          ELSE Apply([Machine EXCEPT !.pc = "rear", !.rear = [NoRear EXCEPT !.rows = rows]])
    /\ faults' = IF ok THEN faults ELSE faults + 1
    /\ UNCHANGED <<storeVars, conns, nextConn, timers, request, detected,
                   verdicts, searchNo, observed, sideVars>>

RearBatch == SubSeq(rear.rows, rear.i, Min(rear.i + REAR_BATCH_SIZE - 1, Len(rear.rows)))

StoredOutcome == [kind |-> "stored", free_sqft |-> 0, approximate |-> FALSE]

\* the parcels of the batch without a stored area: the rpc is called for them
NeedsRpc == {p \in Range(RearBatch) : parcels[p].rear_free_sqft = NoSqft}

RpcFaults(outs) == Cardinality({p \in DOMAIN outs : outs[p].kind # "data"})

\* Promise.all of one batch of calculateRearYardsInBatches resolves; outs are
\* the outcomes of the rpc calls of the parcels without a stored area
RearBatchReturn(outs) ==
    /\ pc = "rear"
    /\ DOMAIN outs = NeedsRpc
    /\ faults + RpcFaults(outs) <= MaxFaults
    /\ LET batch == RearBatch
           done == [k \in 1..Len(batch) |->
                      RearYardOf(batch[k], IF batch[k] \in DOMAIN outs
                                           THEN outs[batch[k]] ELSE StoredOutcome)]
           results == rear.results \o done
       IN IF rear.i + REAR_BATCH_SIZE <= Len(rear.rows)
          THEN Apply([Machine EXCEPT !.rear.i = @ + REAR_BATCH_SIZE,
                                     !.rear.results = results])
          ELSE Apply(AfterSQL([Machine EXCEPT !.rear.results = results], Alive,
                              MinRearFilter(results, request.filters.minRearSqft)))
    /\ faults' = faults + RpcFaults(outs)
    /\ observed' = [observed EXCEPT
                      !.rearCalled = @ \cup DOMAIN outs,
                      !.rearFailed = @ \cup {p \in DOMAIN outs : outs[p].kind # "data"}]
    /\ UNCHANGED <<storeVars, conns, nextConn, timers, request, detected,
                   verdicts, searchNo, sideVars>>

\* the cv_detections lookup of executeCVAnalysis returns; the first batch starts
CacheReturn(ok) ==
    /\ pc = "cv_cache"
    /\ ok \/ CanFail
    /\ LET map == [p \in PIDs |->
                     IF ok /\ p \in Ids(sqlResults)
                     THEN DetectionEntry(cv_detections[p]) ELSE "undefined"]
       IN Apply(IssueBatch([Machine EXCEPT !.cv.detectionMap = map]))
    /\ faults' = IF ok THEN faults ELSE faults + 1
    /\ UNCHANGED <<storeVars, conns, nextConn, timers, request, detected,
                   verdicts, searchNo, observed, sideVars>>

CvFailures == {"fail", "malformed"}

\* one cvService.detectPools call of the batch returns
CVCallReturn(p, out) ==
    /\ pc = "cv_batch"
    /\ p \in cv.inflight
    /\ out \notin CvFailures \/ CanFail
    /\ cv' = [cv EXCEPT !.inflight = @ \ {p}, !.outcome[p] = HasPoolOf(out)]
    /\ detected' = detected \cup {p}
    /\ faults' = IF out \in CvFailures THEN faults + 1 ELSE faults
    /\ observed' = IF out = "fail" THEN [observed EXCEPT !.cvFailed = @ \cup {p}]
                   ELSE observed
    /\ UNCHANGED <<storeVars, regVars, pc, request, rear, sqlResults, llm, emitted,
                   cvCalls, llmCalls, verdicts, searchNo, sideVars>>

\* the batch's promises raced: the first one to settle resolves the await
PromiseRace(inflight) == TRUE

\* await Promise.all(batchPromises) resolves once no call of the batch is pending
PromiseAll(inflight) == inflight = {}

\* Promise.all of the batch resolves: results.push, processed, the updates
CVBatchJoin ==
    /\ pc = "cv_batch"
    /\ PromiseAll(cv.inflight)
    /\ LET m1 == [Machine EXCEPT !.cv.results = @ \o BatchResults(Machine),
                                 !.cv.processed = @ + Len(CvBatch(Machine))]
       IN IF Len(CvUpdates(Machine)) > 0
          THEN Apply([m1 EXCEPT !.pc = "cv_write"])
          ELSE Apply(AfterCVBatch(m1, Alive))
    /\ UNCHANGED <<storeVars, conns, nextConn, timers, request, detected,
                   verdicts, faults, searchNo, observed, sideVars>>

\* batchUpdateParcels returns (a failed upsert is logged)
CVWriteReturn(ok) ==
    /\ pc = "cv_write"
    /\ ok \/ CanFail
    /\ LET updates == CvUpdates(Machine)
       IN parcels' = [p \in PIDs |->
             IF ok /\ p \in Ids(updates)
             THEN [parcels[p] EXCEPT !.has_pool = cv.outcome[p]]
             ELSE parcels[p]]
    /\ Apply(AfterCVBatch(Machine, Alive))
    /\ faults' = IF ok THEN faults ELSE faults + 1
    /\ UNCHANGED <<cv_detections, api_usage, aoiOthers, conns, nextConn, timers,
                   request, detected, verdicts, searchNo, observed, sideVars>>

\* the flush test with > for >=
FlushDueLate(updates, processed, total) ==
    Len(updates) > LLM_FLUSH_SIZE \/ processed = total

\* updates.length >= 5 || processed === sortedEdgeCases.length
FlushDue(updates, processed, total) ==
    Len(updates) >= LLM_FLUSH_SIZE \/ processed = total

\* the catch of the loop body rethrowing: the search fails
LLMCatchRethrow(m) == [m EXCEPT !.pc = "failed"]

\* the catch of the loop body: the failure is logged, processed++, next parcel
LLMCatch(m) == IterLLM([m EXCEPT !.llm.processed = @ + 1, !.llm.idx = @ + 1])

\* llmService.analyzeParcel returns a verdict or throws
LLMReturn(ok, qualifies, cost) ==
    /\ pc = "llm_call"
    /\ ok \/ CanFail
    /\ LET id == llm.sorted[llm.idx].id
           m1 == [Machine EXCEPT
                    !.llm.totalCost = @ + cost,
                    !.llm.updates = Append(@, [id |-> id, qualifies |-> qualifies]),
                    !.llm.processed = @ + 1]
       IN /\ IF ~ok
             THEN Apply(LLMCatch(Machine))
             ELSE IF FlushDue(m1.llm.updates, m1.llm.processed, Len(m1.llm.sorted))
             THEN Apply([m1 EXCEPT !.pc = "llm_flush"])
             ELSE Apply(LLMProgress(m1, Alive))
          /\ verdicts' = IF ok THEN [verdicts EXCEPT ![id] = qualifies] ELSE verdicts
          /\ observed' = IF ok THEN observed
                         ELSE [observed EXCEPT !.llmFailed = @ \cup {id}]
    /\ faults' = IF ok THEN faults ELSE faults + 1
    /\ UNCHANGED <<storeVars, conns, nextConn, timers, request, detected,
                   searchNo, sideVars>>

\* batchUpdateParcelAnalysis returns (a failed upsert is logged)
LLMFlushReturn(ok) ==
    /\ pc = "llm_flush"
    /\ ok \/ CanFail
    /\ parcels' = [p \in PIDs |->
          IF ok /\ \E k \in 1..Len(llm.updates) : llm.updates[k].id = p
          THEN [parcels[p] EXCEPT !.qualifies =
                  llm.updates[CHOOSE k \in 1..Len(llm.updates) : llm.updates[k].id = p].qualifies]
          ELSE parcels[p]]
    /\ pc' = "llm_usage"
    /\ faults' = IF ok THEN faults ELSE faults + 1
    /\ observed' = [observed EXCEPT
                      !.flushed = @ \cup Ids(llm.updates),
                      !.lostWrites = IF ok THEN @ ELSE @ \cup Ids(llm.updates)]
    /\ UNCHANGED <<cv_detections, api_usage, aoiOthers, regVars, request, rear,
                   sqlResults, cv, llm, emitted, cvCalls, detected, llmCalls,
                   verdicts, searchNo, sideVars>>

\* batchInsertUsageRecords returns; the buffers are cleared, onProgress
LLMUsageReturn(ok) ==
    /\ pc = "llm_usage"
    /\ ok \/ CanFail
    /\ api_usage' = IF ok THEN api_usage + Len(llm.updates) ELSE api_usage
    /\ IF llm.tail THEN Apply(EnterFinal(Machine))
       ELSE Apply(LLMProgress([Machine EXCEPT !.llm.updates = <<>>], Alive))
    /\ faults' = IF ok THEN faults ELSE faults + 1
    /\ observed' = [observed EXCEPT !.usageHanded = @ + Len(llm.updates)]
    /\ UNCHANGED <<parcels, cv_detections, aoiOthers, conns, nextConn, timers,
                   request, detected, verdicts, searchNo, sideVars>>

\* getFinalResults returns or throws
FinalReturn(ok) ==
    /\ pc = "final"
    /\ ok \/ CanFail
    /\ LET finalResults == FinalResults(Ids(sqlResults))
       IN IF ~ok THEN \E isError \in BOOLEAN :
                          Apply(Failed(Machine, Alive, "final read failed", isError))
          ELSE IF ~Alive THEN Apply(Thrown(Machine))
          ELSE Apply([Machine EXCEPT !.pc = "done",
                  !.emits = <<SnapResults("complete", Len(finalResults),
                                          Len(finalResults), finalResults)>>])
    /\ faults' = IF ok THEN faults ELSE faults + 1
    /\ UNCHANGED <<storeVars, conns, nextConn, timers, request, detected,
                   verdicts, searchNo, observed, sideVars>>

\* the first event of a connection taken from the initial registry entry
currentProgressInitial == Snap("starting", 0, 0)

\* const currentProgress = searchStates[searchId].progress
currentProgress == searchStates.progress

\* the status of the reply to GET /search/:searchId/progress: 404 'Search not
\* found' when searchStates has no entry for the id, the event stream otherwise
ProgressStatus == IF searchStates.exists THEN 200 ELSE 404

\* GET /search/:searchId/progress of a known search: a consumer attaches and
\* is sent the current snapshot
Attach ==
    /\ ProgressStatus = 200
    /\ nextConn < MaxConns
    /\ nextConn' = nextConn + 1
    /\ conns' = conns \cup {nextConn + 1}
    /\ searchStates' = [searchStates EXCEPT !.clients = @ \cup {nextConn + 1}]
    /\ received' = [received EXCEPT ![nextConn + 1] =
                       [from |-> Len(emitted), events |-> <<currentProgress>>]]
    /\ UNCHANGED <<storeVars, timers, runVars, histVars, sideVars>>

\* request.raw 'close': the consumer leaves; the last one arms the cleanup timer
Detach(c) ==
    /\ c \in conns
    /\ conns' = conns \ {c}
    /\ searchStates' = IF searchStates.exists
                       THEN [searchStates EXCEPT !.clients = @ \ {c}]
                       ELSE searchStates
    /\ timers' = IF searchStates.exists /\ searchStates.clients \ {c} = {}
                 THEN timers + 1 ELSE timers
    /\ UNCHANGED <<storeVars, nextConn, received, runVars, histVars, sideVars>>

\* a timer callback that deletes the entry without looking at the client set
CleanupTimerUnconditional ==
    /\ timers > 0
    /\ timers' = timers - 1
    /\ searchStates' = [searchStates EXCEPT !.exists = FALSE]
    /\ UNCHANGED <<storeVars, conns, nextConn, received, runVars, histVars, sideVars>>

\* the 60 s cleanup timer fires
CleanupTimer ==
    /\ timers > 0
    /\ timers' = timers - 1
    /\ searchStates' = IF searchStates.exists /\ searchStates.clients = {}
                       THEN [searchStates EXCEPT !.exists = FALSE]
                       ELSE searchStates
    /\ UNCHANGED <<storeVars, conns, nextConn, received, runVars, histVars, sideVars>>

\* identifyEdgeCases applied to the parcel under test
Classify ==
    /\ edgeOut = "unset"
    /\ edgeOut' = Bool2Tri(Len(identifyEdgeCases(<<edgeIn.parcel>>,
                                                 [filters |-> edgeIn.filters])) = 1)
    /\ UNCHANGED <<storeVars, regVars, runVars, histVars, edgeIn, httpVars, gwVars,
                   iouVars, cfgVars>>

\* ------------------------------------------------------------ input sets
StoredRow(a, h, q) ==
    [in_store |-> TRUE, rear_free_sqft |-> a, has_pool |-> h, qualifies |-> q]

AbsentRow ==
    [in_store |-> FALSE, rear_free_sqft |-> NoSqft, has_pool |-> "null", qualifies |-> "null"]

Thresholds == {0, 10}

Requests ==
    {[filters |-> [minRearSqft |-> t, hasPool |-> h]] :
        t \in Thresholds, h \in {"undefined", "true", "false"}}

\* ST_Area(rear_area_with_setbacks) * 364000 * 364000: NULL, negative, 0 or more
FinalAreas == {NoSqft, -5, 0, 11}

\* the function's last statements without the "valid result" test
estimate_rear_yard_free_areaUnchecked(final_area, is_approximate) ==
    [free_sqft |-> final_area, approximate |-> is_approximate]

\* estimate_rear_yard_free_area from "Ensure we have a valid result" on
estimate_rear_yard_free_area(final_area, is_approximate) ==
    IF final_area = NoSqft \/ final_area < 0
    THEN [free_sqft |-> 0, approximate |-> TRUE]
    ELSE [free_sqft |-> final_area, approximate |-> is_approximate]

RpcOutcomes ==
    {[kind |-> "data"] @@ estimate_rear_yard_free_area(v, a) : v \in FinalAreas, a \in BOOLEAN}
    \cup {[kind |-> k, free_sqft |-> 0, approximate |-> FALSE] : k \in {"nodata", "throw"}}

CvOutcomes == {"pool", "nopool", "fail", "malformed"}

Costs == {10, 100}

EnrichSets == {{}, 1..NumParcels}

\* configSchema.parse(process.env) with LLM_BUDGET_PER_SEARCH left unset
DefaultConfig == [LLM_BUDGET_PER_SEARCH |-> LLM_BUDGET_PER_SEARCH]

\* the default request of SearchFiltersSchema (minRearSqft defaults to 100)
DefaultRequest == [filters |-> [minRearSqft |-> 100, hasPool |-> "undefined"]]

NoEdgeInput ==
    [parcel |-> [id |-> 1, rear_free_sqft |-> 0, rear_yard_approximate |-> FALSE,
                 has_pool |-> "null"],
     filters |-> DefaultRequest.filters]

\* ------------------------------------------------------------------ Init
\* no POST /search has been answered
NoReply == [sent |-> FALSE, status |-> 0, hasSearchId |-> FALSE,
            body |-> [aoi |-> "missing", filters |-> "missing"]]

NoGwInput == [method |-> "POST", provider |-> "undefined",
              OPENAI_API_KEY |-> "undefined", ANTHROPIC_API_KEY |-> "undefined",
              LLM_ANTHROPIC_ENABLED |-> "undefined"]

\* no response yet
NoGwOutput == [status |-> 0, called |-> "none", message |-> ""]

GatewayIdle == gwIn = NoGwInput /\ gwOut = NoGwOutput

NoIouInput == [geom1 |-> <<>>, geom2 |-> <<>>]

\* no result yet
NoIouOutput == [returned |-> FALSE, num |-> 0, den |-> 1]

IoUIdle == iouIn = NoIouInput /\ iouOut = NoIouOutput

InitRun ==
    /\ api_usage = 0
    /\ searchStates = [exists |-> FALSE, clients |-> {}, progress |-> Snap("starting", 0, 0)]
    /\ conns = {}
    /\ nextConn = 0
    /\ timers = 0
    /\ received = NoEvents
    /\ reply = NoReply
    /\ pc = "idle"
    /\ request = DefaultRequest
    /\ rear = NoRear
    /\ sqlResults = <<>>
    /\ cv = NoCv
    /\ llm = NoLlm
    /\ emitted = <<>>
    /\ cvCalls = [p \in PIDs |-> 0]
    /\ detected = {}
    /\ llmCalls = <<>>
    /\ verdicts = [p \in PIDs |-> "none"]
    /\ faults = 0
    /\ observed = NothingObserved
    /\ searchNo = 0

InitRows ==
    {AbsentRow} \cup {StoredRow(a, h, "null") : a \in {NoSqft, 10, 12}, h \in {"null", "true"}}

\* tables whose first NumParcels rows are drawn from rows, the others absent
TablesOf(rows, absent) ==
    {[p \in PIDs |-> IF p <= NumParcels THEN g[p] ELSE absent] :
        g \in [1..NumParcels -> rows]}

Init ==
    /\ InitRun
    /\ config = DefaultConfig
    /\ parcels \in TablesOf(InitRows, AbsentRow)
    /\ cv_detections \in TablesOf({"none", "pool"}, "none")
    /\ aoiOthers = 0
    /\ edgeIn = NoEdgeInput
    /\ edgeOut = "unset"
    /\ GatewayIdle
    /\ IoUIdle

\* what the collaborators may answer
AnyEnv == [rpcs |-> RpcOutcomes, detections |-> CvOutcomes,
           verdicts |-> {"true", "false"}, costs |-> Costs]

\* the turns of executeSearch with the collaborators answering within env
PipelineOf(env) ==
    \/ \E ok \in BOOLEAN : CountReturn(ok)
    \/ \E ok \in BOOLEAN, upserted \in EnrichSets : EnrichReturn(ok, upserted)
    \/ \E ok \in BOOLEAN : QueryReturn(ok)
    \/ \E outs \in [NeedsRpc -> env.rpcs] : RearBatchReturn(outs)
    \/ \E ok \in BOOLEAN : CacheReturn(ok)
    \/ \E p \in PIDs, out \in env.detections : CVCallReturn(p, out)
    \/ CVBatchJoin
    \/ \E ok \in BOOLEAN : CVWriteReturn(ok)
    \/ \E ok \in BOOLEAN, q \in env.verdicts, cost \in env.costs : LLMReturn(ok, q, cost)
    \/ \E ok \in BOOLEAN : LLMFlushReturn(ok)
    \/ \E ok \in BOOLEAN : LLMUsageReturn(ok)
    \/ \E ok \in BOOLEAN : FinalReturn(ok)

Pipeline == PipelineOf(AnyEnv)

Next ==
    \/ \E req \in Requests : StartSearch(req)
    \/ Pipeline

Spec == Init /\ [][Next]_vars

\* ------------------------------------------ the classifier on its own
EdgeAreas == 0..23
EdgeThresholds == {0, 10, 20}

EdgeInputs ==
    {[parcel |-> [id |-> 1, rear_free_sqft |-> a, rear_yard_approximate |-> x,
                  has_pool |-> h],
      filters |-> [minRearSqft |-> t, hasPool |-> f]] :
        a \in EdgeAreas, x \in BOOLEAN, h \in Tri,
        t \in EdgeThresholds, f \in {"undefined", "true", "false"}}

InitEdge ==
    /\ InitRun
    /\ config = DefaultConfig
    /\ parcels = [p \in PIDs |-> AbsentRow]
    /\ cv_detections = [p \in PIDs |-> "none"]
    /\ aoiOthers = 0
    /\ edgeIn \in EdgeInputs
    /\ edgeOut = "unset"
    /\ GatewayIdle
    /\ IoUIdle

NextEdge == Classify

SpecEdge == InitEdge /\ [][NextEdge]_vars

\* C7: a parcel whose rear-yard area equals the threshold (0 included) is
\* always classified as an edge case, whatever its approximate flag and pool
\* status.
C7_EqualThresholdIsEdgeCase ==
    (edgeOut # "unset" /\ edgeIn.parcel.rear_free_sqft = edgeIn.filters.minRearSqft)
        => edgeOut = "true"

\* C8: identifyEdgeCases returns a parcel if and only if its area is within
\* 10% of the threshold, or its estimate is approximate, or a pool filter is
\* given and the parcel's has_pool differs from it.
C8_EdgeCaseIffAnyCondition ==
    edgeOut # "unset" =>
        (edgeOut = "true" <=>
            \/ 10 * Abs(edgeIn.parcel.rear_free_sqft - edgeIn.filters.minRearSqft)
                   <= edgeIn.filters.minRearSqft
            \/ edgeIn.parcel.rear_yard_approximate
            \/ /\ edgeIn.filters.hasPool # "undefined"
               /\ edgeIn.parcel.has_pool # edgeIn.filters.hasPool)

\* ------------------------------------------- the progress registry at work
ChannelRows == {StoredRow(10, "null", "null"), StoredRow(NoSqft, "null", "null")}

ChannelRequests == {[filters |-> [minRearSqft |-> 10, hasPool |-> "undefined"]]}

InitChannel ==
    /\ InitRun
    /\ config = DefaultConfig
    /\ parcels \in TablesOf(ChannelRows, AbsentRow)
    /\ cv_detections = [p \in PIDs |-> "none"]
    /\ aoiOthers = 0
    /\ edgeIn = NoEdgeInput
    /\ edgeOut = "unset"
    /\ GatewayIdle
    /\ IoUIdle

\* one answer of each kind from every collaborator
ChannelEnv ==
    [rpcs |-> {[kind |-> "data", free_sqft |-> 11, approximate |-> FALSE],
               [kind |-> "throw", free_sqft |-> 0, approximate |-> FALSE]},
     detections |-> {"nopool", "fail"},
     verdicts |-> {"true"},
     costs |-> {10}]

NextChannel ==
    \/ \E req \in ChannelRequests : StartSearch(req)
    \/ PipelineOf(ChannelEnv)
    \/ Attach
    \/ \E c \in 1..MaxConns : Detach(c)
    \/ CleanupTimer

SpecChannel == InitChannel /\ [][NextChannel]_vars

\* ------------------------------------------------ one search after another
RepeatRows == {StoredRow(12, "null", "null"), StoredRow(NoSqft, "null", "null")}

InitRepeat ==
    /\ InitRun
    /\ config = DefaultConfig
    /\ parcels \in TablesOf(RepeatRows, AbsentRow)
    /\ cv_detections \in TablesOf({"none", "pool"}, "none")
    /\ aoiOthers = 0
    /\ edgeIn = NoEdgeInput
    /\ edgeOut = "unset"
    /\ GatewayIdle
    /\ IoUIdle

NextRepeat ==
    \/ \E req \in ChannelRequests : StartSearch(req)
    \/ \E req \in ChannelRequests : NextSearch(req)
    \/ Pipeline

SpecRepeat == InitRepeat /\ [][NextRepeat]_vars

\* ----------------------------------------------------------------- claims
EmittedStages == {emitted[i].stage : i \in 1..Len(emitted)}

\* the parcel with id p as the pipeline holds it after the SQL stage
PipelineParcel(p) == sqlResults[CHOOSE k \in 1..Len(sqlResults) : sqlResults[k].id = p]

\* C1: the stages of a search's snapshots, the starting snapshot included,
\* never move backwards in starting < sql_filter < cv_analysis < llm_analysis
\* < complete; error may follow any stage.
C1_StagesNeverGoBack ==
    \A i, j \in 1..Len(emitted) :
        (i < j /\ emitted[i].stage # "error" /\ emitted[j].stage # "error")
            => StageRank(emitted[i].stage) <= StageRank(emitted[j].stage)

C1_Witness ==
    /\ pc = "done"
    /\ EmittedStages = {"starting", "sql_filter", "cv_analysis", "llm_analysis", "complete"}

\* C2: within one search, once the cumulative cost has reached the budget no
\* further adjudication call is issued: every call issued was issued while the
\* cost accumulated so far was still below the budget.
C2_NoCallAfterBudget ==
    \A i \in 1..Len(llmCalls) : llmCalls[i].costBefore < LLM_BUDGET_PER_SEARCH

C2_Witness ==
    /\ pc = "done"
    /\ llm.totalCost >= LLM_BUDGET_PER_SEARCH
    /\ Len(llmCalls) < Len(llm.sorted)

\* C3: every verdict a successful adjudication call returned is in the parcel
\* store when the final results are re-read (the store accepting the write),
\* and the complete snapshot's result of that parcel carries it.
C3_VerdictsInFinalResult ==
    \A p \in PIDs :
        (verdicts[p] # "none" /\ p \notin observed.lostWrites) =>
            /\ pc \in {"final", "done"} => parcels[p].qualifies = verdicts[p]
            /\ pc = "done" =>
                 \E k \in 1..Len(emitted[Len(emitted)].results) :
                     /\ emitted[Len(emitted)].results[k].id = p
                     /\ emitted[Len(emitted)].results[k].qualifies = verdicts[p]

C3_Witness ==
    /\ pc = "done"
    /\ llm.tail
    /\ \E p \in PIDs : verdicts[p] # "none" /\ p \notin observed.lostWrites

\* C4: when no parcel remains after the filters the search emits complete
\* with results = [], no cv_analysis or llm_analysis snapshot, and calls
\* neither the detector nor the adjudication gateway.
C4_EmptySearchSkipsAnalysis ==
    Len(sqlResults) = 0 =>
        /\ EmittedStages \cap {"cv_analysis", "llm_analysis"} = {}
        /\ \A p \in PIDs : cvCalls[p] = 0
        /\ llmCalls = <<>>
        /\ pc = "done" => emitted[Len(emitted)] = SnapResults("complete", 0, 0, <<>>)

C4_Witness ==
    /\ pc = "done"
    /\ Len(sqlResults) = 0
    /\ Len(rear.results) > 0

\* C5: once a fresh detection has been performed for a parcel, no later
\* detection request for it (same or later search, within the validity
\* window) invokes the external detector.
C5_DetectedNeverRedetected ==
    [][\A p \in detected : cvCalls'[p] = cvCalls[p]]_vars

\* C6: a failed detection call leaves the parcel's has-pool value, in the
\* pipeline and in the store after the batch, as it was before the call.
C6_FailedDetectionKeepsHasPool ==
    \A k \in 1..Len(cv.results) :
        cv.results[k].id \in observed.cvFailed =>
            /\ cv.results[k].has_pool = PipelineParcel(cv.results[k].id).has_pool
            /\ pc \in {"llm_call", "llm_flush", "llm_usage", "final", "done"} =>
                 parcels[cv.results[k].id].has_pool
                     = PipelineParcel(cv.results[k].id).has_pool

CallDistance(k) ==
    Abs(PipelineParcel(llmCalls[k].id).rear_free_sqft - request.filters.minRearSqft)

\* C9: adjudication calls are issued in non-decreasing distance from the
\* threshold, and every edge case not (yet) adjudicated is at least as far
\* from it as every adjudicated one.
C9_AdjudicationByDistance ==
    /\ \A i, j \in 1..Len(llmCalls) : i < j => CallDistance(i) <= CallDistance(j)
    /\ \A i \in 1..Len(llmCalls), k \in 1..Len(llm.sorted) :
          llm.sorted[k].id \notin Ids(llmCalls) =>
              CallDistance(i) <= Abs(llm.sorted[k].rear_free_sqft
                                     - request.filters.minRearSqft)

C9_Witness ==
    /\ Len(llmCalls) >= 2
    /\ llmCalls[1].id > llmCalls[2].id
    /\ CallDistance(1) < CallDistance(2)

\* C10: consumers being absent or having all disconnected never makes the
\* pipeline abort or skip later stages.
C10_ConsumersNeverAbortPipeline == pc # "aborted"

\* C11: the first event written to a consumer is the snapshot most recently
\* emitted for the search at the moment of its attach, the terminal complete
\* or error snapshot included.
C11_LateJoinerGetsCurrent ==
    \A c \in 1..nextConn :
        /\ received[c].from >= 1
        /\ received[c].events[1] = emitted[received[c].from]

C11_Witness ==
    \E c, d \in 1..nextConn :
        /\ received[c].events[1].stage = "complete"
        /\ received[d].events[1].stage \in {"cv_analysis", "llm_analysis"}

\* C12: a consumer is written, after its first event, exactly the snapshots
\* emitted since its attach, in emission order, for as long as it is attached
\* (a prefix of them once it has left); consumers attached over the same
\* interval are therefore written the same sequence.
C12_BroadcastInEmissionOrder ==
    \A c \in 1..nextConn :
        IF c \in conns
        THEN received[c].events = SubSeq(emitted, received[c].from, Len(emitted))
        ELSE \E n \in received[c].from..Len(emitted) :
                received[c].events = SubSeq(emitted, received[c].from, n)

C12_Witness ==
    /\ pc = "done"
    /\ conns = {1, 2}
    /\ received[1].from < received[2].from
    /\ Len(received[2].events) >= 3

\* C13: when a stage throws, the search's last-known snapshot becomes an error
\* snapshot carrying the exception's message, and from then on no snapshot is
\* emitted, no detector or adjudication call is started and the pipeline
\* stays ended.
C13_StageFailureEndsInError ==
    [][/\ (pc # "failed" /\ pc' = "failed") =>
             /\ searchStates'.exists
             /\ searchStates'.progress.stage = "error"
             /\ searchStates'.progress.error \in {"query failed", "final read failed"}
             /\ emitted'[Len(emitted')] = searchStates'.progress
       /\ pc = "failed" =>
             /\ pc' = "failed"
             /\ emitted' = emitted
             /\ cvCalls' = cvCalls
             /\ llmCalls' = llmCalls]_vars

\* ------------------------------------------- the enrichment trigger at work
EnrichRows == {AbsentRow, StoredRow(12, "null", "null")}

\* parcels of the AOI that the search's attribute filters exclude
EnrichOthers == {0, MIN_EXISTING_PARCELS - NumParcels, MIN_EXISTING_PARCELS}

InitEnrich ==
    /\ InitRun
    /\ config = DefaultConfig
    /\ parcels \in TablesOf(EnrichRows, AbsentRow)
    /\ cv_detections = [p \in PIDs |-> "pool"]
    /\ aoiOthers \in EnrichOthers
    /\ edgeIn = NoEdgeInput
    /\ edgeOut = "unset"
    /\ GatewayIdle
    /\ IoUIdle

NextEnrich ==
    \/ \E req \in ChannelRequests : StartSearch(req)
    \/ PipelineOf(ChannelEnv)

SpecEnrich == InitEnrich /\ [][NextEnrich]_vars

\* the parcels with a row in the parcel store
Stored == {p \in PIDs : parcels[p].in_store}

Bodies ==
    {[aoi |-> a, filters |-> f] :
        a \in GeometryTypes \cup {"missing", "Circle", "PolygonNoCoordinates"},
        f \in {"missing", "empty", "minRearSqft", "minRearSqftString",
               "minRearSqftNegative"}}

InitValidate ==
    /\ InitRun
    /\ config = DefaultConfig
    /\ parcels \in TablesOf(ChannelRows, AbsentRow)
    /\ cv_detections = [p \in PIDs |-> "pool"]
    /\ aoiOthers = 0
    /\ edgeIn = NoEdgeInput
    /\ edgeOut = "unset"
    /\ GatewayIdle
    /\ IoUIdle

NextValidate ==
    \/ \E body \in Bodies : PostSearch(body)
    \/ PipelineOf(ChannelEnv)

SpecValidate == InitValidate /\ [][NextValidate]_vars

\* C15: a start-search request without an AOI, or with an AOI that is not a
\* Polygon, is answered 400 without a searchId, registers no search state and
\* never starts the pipeline.
C15_InvalidRequestRejected400 ==
    (reply.sent /\ reply.body.aoi # "Polygon") =>
        /\ reply.status = 400
        /\ ~reply.hasSearchId
        /\ ~searchStates.exists
        /\ pc = "idle"
        /\ emitted = <<>>

\* C16: every parcel of a complete snapshot's result list has a stored
\* rear-yard area that is present and at least the search's minRearSqft, and
\* the list holds exactly the parcels that passed the minimum-rear-yard filter.
C16_ResultsHaveStoredAreaAboveMin ==
    pc = "done" =>
        LET results == emitted[Len(emitted)].results
        IN /\ \A k \in 1..Len(results) :
                 /\ results[k].rearFreeSqft # NoSqft
                 /\ results[k].rearFreeSqft >= request.filters.minRearSqft
           /\ Ids(results) = Ids(sqlResults)
           /\ Len(results) = Len(sqlResults)

\* ------------------------------------------- a search with many edge cases
\* every parcel is stored with an area within 10% of the threshold of
\* ChannelRequests and has a fresh pool detection
FlushTable ==
    [p \in PIDs |-> StoredRow(IF p % 2 = 1 THEN 10 ELSE 11, "true", "null")]

FlushEnv ==
    [rpcs |-> {[kind |-> "data", free_sqft |-> 11, approximate |-> FALSE],
               [kind |-> "throw", free_sqft |-> 0, approximate |-> FALSE]},
     detections |-> {"pool", "fail"},
     verdicts |-> {"true"},
     costs |-> Costs]

InitFlush ==
    /\ InitRun
    /\ config = DefaultConfig
    /\ parcels = FlushTable
    /\ cv_detections = [p \in PIDs |-> "pool"]
    /\ aoiOthers = MIN_EXISTING_PARCELS
    /\ edgeIn = NoEdgeInput
    /\ edgeOut = "unset"
    /\ GatewayIdle
    /\ IoUIdle

NextFlush ==
    \/ \E req \in ChannelRequests : StartSearch(req)
    \/ PipelineOf(FlushEnv)

SpecFlush == InitFlush /\ [][NextFlush]_vars

\* the verdicts computed in this search and not yet handed to a flush
Unflushed == {p \in PIDs : verdicts[p] # "none" /\ p \notin observed.flushed}

\* the adjudication calls of this search that returned a verdict
Adjudicated == {p \in PIDs : verdicts[p] # "none"}

\* C17: while an adjudication call is in flight at most 4 computed verdicts
\* are unflushed; a flush starts as soon as 5 are buffered; and once the
\* adjudication stage has ended every computed verdict and usage record has
\* been handed to storage.
C17_VerdictsFlushedInGroups ==
    /\ pc = "llm_call" => Cardinality(Unflushed) <= LLM_FLUSH_SIZE - 1
    /\ Cardinality(Unflushed) <= LLM_FLUSH_SIZE
    /\ Cardinality(Unflushed) = LLM_FLUSH_SIZE => pc = "llm_flush"
    /\ pc \in {"final", "done"} =>
          /\ Unflushed = {}
          /\ observed.usageHanded = Cardinality(Adjudicated)

C17_Witness ==
    /\ pc = "llm_call"
    /\ Cardinality(observed.flushed) = LLM_FLUSH_SIZE
    /\ Unflushed = {}
    /\ observed.usageHanded = LLM_FLUSH_SIZE

\* C18: when the adjudication call of an edge case throws, no verdict and no
\* usage record is written for that parcel, the cumulative cost stays as it
\* was, the next edge case in priority order is adjudicated next, and the
\* search goes on to its final results.
C18_FailedAdjudicationIsSkipped ==
    /\ [](\A p \in observed.llmFailed :
            /\ verdicts[p] = "none"
            /\ parcels[p].qualifies = "null"
            /\ p \notin observed.flushed)
    /\ [](pc \in {"final", "done"} => observed.usageHanded = Cardinality(Adjudicated))
    /\ [][(pc = "llm_call" /\ observed'.llmFailed # observed.llmFailed) =>
             /\ llm'.totalCost = llm.totalCost
             /\ llm'.updates = llm.updates
             /\ verdicts' = verdicts
             /\ parcels' = parcels
             /\ api_usage' = api_usage
             /\ emitted' = emitted
             /\ IF llm.idx < Len(llm.sorted)
                THEN /\ pc' = "llm_call"
                     /\ llmCalls' = Append(llmCalls,
                                           [id |-> llm.sorted[llm.idx + 1].id,
                                            costBefore |-> llm.totalCost])
                ELSE /\ pc' \in {"llm_flush", "final"}
                     /\ llmCalls' = llmCalls]_vars

C18_Witness ==
    /\ pc = "done"
    /\ observed.llmFailed # {}
    /\ Adjudicated # {}
    /\ llmCalls[1].id \in observed.llmFailed

\* ------------------------------------- the llm_summarize function on its own
\* JavaScript truthiness of an environment variable or body field
Configured(value) == value \notin {"undefined", ""}

\* Deno.env.get('LLM_ANTHROPIC_ENABLED') === 'true'
anthropicEnabled(in) == in.LLM_ANTHROPIC_ENABLED = "true"

\* provider = 'openai' by default in the destructuring of the body
RequestedProvider(in) == IF in.provider = "undefined" THEN "openai" ELSE in.provider

\* "Determine which provider to use"
selectedProvider(in) ==
    IF /\ RequestedProvider(in) = "anthropic"
       /\ (~anthropicEnabled(in) \/ ~Configured(in.ANTHROPIC_API_KEY))
    THEN "openai"
    ELSE RequestedProvider(in)

\* the handler's response; apiOk: the provider's API answers with a completion
serve(in, apiOk) ==
    IF in.method = "OPTIONS"
    THEN [status |-> 200, called |-> "none", message |-> "ok"]
    ELSE IF selectedProvider(in) = "openai" /\ ~Configured(in.OPENAI_API_KEY)
    THEN [status |-> 500, called |-> "none", message |-> "No LLM provider available"]
    ELSE IF apiOk
    THEN [status |-> 200, called |-> selectedProvider(in), message |-> ""]
    ELSE [status |-> 500, called |-> selectedProvider(in), message |-> "API error"]

\* one request is served
Serve(apiOk) ==
    /\ gwOut = NoGwOutput
    /\ gwOut' = serve(gwIn, apiOk)
    /\ UNCHANGED <<storeVars, regVars, runVars, histVars, edgeVars, httpVars, gwIn,
                   iouVars, cfgVars>>

GwInputs ==
    {[method |-> m, provider |-> p, OPENAI_API_KEY |-> o, ANTHROPIC_API_KEY |-> a,
      LLM_ANTHROPIC_ENABLED |-> x] :
        m \in {"POST", "OPTIONS"}, p \in {"undefined", "openai", "anthropic"},
        o \in {"undefined", "", "sk-openai"}, a \in {"undefined", "", "sk-anthropic"},
        x \in {"undefined", "true", "false", "TRUE"}}

InitGateway ==
    /\ InitRun
    /\ config = DefaultConfig
    /\ parcels = [p \in PIDs |-> AbsentRow]
    /\ cv_detections = [p \in PIDs |-> "none"]
    /\ aoiOthers = 0
    /\ edgeIn = NoEdgeInput
    /\ edgeOut = "unset"
    /\ gwIn \in GwInputs
    /\ gwOut = NoGwOutput
    /\ IoUIdle

NextGateway == \E apiOk \in BOOLEAN : Serve(apiOk)

SpecGateway == InitGateway /\ [][NextGateway]_vars

\* C19: OpenAI is called when no provider is asked for and it has a key;
\* Anthropic is called only when it is enabled by configuration and has a
\* key; and the call fails with 'No LLM provider available' only when neither
\* provider is configured (OpenAI without a key, Anthropic without a key or
\* not enabled).
C19_FailsOnlyWithoutAnyProvider ==
    (gwOut # NoGwOutput /\ gwIn.method = "POST") =>
        /\ (gwIn.provider = "undefined" /\ gwIn.OPENAI_API_KEY = "sk-openai")
               => gwOut.called = "openai"
        /\ gwOut.called = "anthropic"
               => /\ gwIn.LLM_ANTHROPIC_ENABLED = "true"
                  /\ gwIn.ANTHROPIC_API_KEY = "sk-anthropic"
        /\ gwOut.message = "No LLM provider available"
               => /\ gwIn.OPENAI_API_KEY # "sk-openai"
                  /\ ~(/\ gwIn.LLM_ANTHROPIC_ENABLED = "true"
                        /\ gwIn.ANTHROPIC_API_KEY = "sk-anthropic")

\* ------------------------------------------------ calculateIoU on its own
\* A Polygon is its exterior ring: a sequence of <<lng, lat>> whose last
\* point repeats the first.  Areas are kept as twice the area in square
\* degrees; the factor 364000 * 364000 of the code multiplies the
\* intersection and both areas alike and cancels in the ratio.
Max(a, b) == IF a > b THEN a ELSE b

\* the sum of x1 * y2 - x2 * y1 over the edges i..Len-1 of the ring
RECURSIVE ShoelaceSum(_, _)
ShoelaceSum(coords, i) ==
    IF i >= Len(coords) THEN 0
    ELSE coords[i][1] * coords[i + 1][2] - coords[i + 1][1] * coords[i][2]
         + ShoelaceSum(coords, i + 1)

\* calculatePolygonArea, doubled: Math.abs(area) / 2 without the division
calculatePolygonArea2(geometry) == Abs(ShoelaceSum(geometry, 1))

getBoundingBox(geometry) ==
    LET lngs == {geometry[i][1] : i \in 1..Len(geometry)}
        lats == {geometry[i][2] : i \in 1..Len(geometry)}
    IN [minLng |-> CHOOSE v \in lngs : \A w \in lngs : v <= w,
        maxLng |-> CHOOSE v \in lngs : \A w \in lngs : v >= w,
        minLat |-> CHOOSE v \in lats : \A w \in lats : v <= w,
        maxLat |-> CHOOSE v \in lats : \A w \in lats : v >= w]

geometriesIntersect(geom1, geom2) ==
    LET bbox1 == getBoundingBox(geom1)
        bbox2 == getBoundingBox(geom2)
    IN ~(\/ bbox1.maxLng < bbox2.minLng
         \/ bbox2.maxLng < bbox1.minLng
         \/ bbox1.maxLat < bbox2.minLat
         \/ bbox2.maxLat < bbox1.minLat)

\* the ratio intersectionArea / unionArea as the fraction num / den
Ratio(num, den) == [returned |-> TRUE, num |-> num, den |-> den]

calculateIoU(geom1, geom2) ==
    IF ~geometriesIntersect(geom1, geom2) THEN Ratio(0, 1)
    ELSE LET area1 == calculatePolygonArea2(geom1)
             area2 == calculatePolygonArea2(geom2)
             bbox1 == getBoundingBox(geom1)
             bbox2 == getBoundingBox(geom2)
             intersectionArea ==
                 Max(0, Min(bbox1.maxLng, bbox2.maxLng) - Max(bbox1.minLng, bbox2.minLng))
                 * Max(0, Min(bbox1.maxLat, bbox2.maxLat) - Max(bbox1.minLat, bbox2.minLat))
             unionArea2 == area1 + area2 - 2 * intersectionArea
         IN IF unionArea2 > 0 THEN Ratio(2 * intersectionArea, unionArea2)
            ELSE Ratio(0, 1)

\* calculateIoU is applied to the two polygons
ComputeIoU ==
    /\ iouOut = NoIouOutput
    /\ iouOut' = calculateIoU(iouIn.geom1, iouIn.geom2)
    /\ UNCHANGED <<storeVars, regVars, runVars, histVars, edgeVars, httpVars, gwVars,
                   iouIn, cfgVars>>

\* a point's rank in row order, to list each triangle once
Rank(pt) == pt[1] * (GridMax + 1) + pt[2]

GridPoints == (0..GridMax) \X (0..GridMax)

\* the ring of the rectangle with corners <<x1, y1>> and <<x2, y2>>
Rectangle(x1, y1, x2, y2) ==
    <<<<x1, y1>>, <<x2, y1>>, <<x2, y2>>, <<x1, y2>>, <<x1, y1>>>>

Rectangles ==
    UNION {{Rectangle(c[1], c[2], x2, y2) : x2 \in (c[1] + 1)..GridMax,
                                           y2 \in (c[2] + 1)..GridMax} :
             c \in GridPoints}

Triangles ==
    {<<a, b, c, a>> : a \in GridPoints, b \in GridPoints, c \in GridPoints}

\* valid polygons: the triangles of non-zero area and the axis-aligned
\* rectangles on the grid
Polygons ==
    {t \in Triangles : /\ Rank(t[1]) < Rank(t[2])
                       /\ Rank(t[2]) < Rank(t[3])
                       /\ calculatePolygonArea2(t) > 0}
    \cup Rectangles

InitIoU ==
    /\ InitRun
    /\ config = DefaultConfig
    /\ parcels = [p \in PIDs |-> AbsentRow]
    /\ cv_detections = [p \in PIDs |-> "none"]
    /\ aoiOthers = 0
    /\ edgeIn = NoEdgeInput
    /\ edgeOut = "unset"
    /\ GatewayIdle
    /\ iouIn \in {[geom1 |-> g, geom2 |-> h] : g \in Polygons, h \in Rectangles}
                \cup {[geom1 |-> g, geom2 |-> g] : g \in Polygons}
    /\ iouOut = NoIouOutput

NextIoU == ComputeIoU

SpecIoU == InitIoU /\ [][NextIoU]_vars

\* C20: calculateIoU(P, P) is 1 for every valid polygon P of non-zero area,
\* and calculateIoU(P, Q) lies in [0, 1] for all polygons P and Q.
C20_IoUOfSelfIsOneAndInRange ==
    iouOut.returned =>
        /\ iouIn.geom1 = iouIn.geom2 => iouOut.num = iouOut.den
        /\ 0 <= iouOut.num
        /\ iouOut.num <= iouOut.den

\* ------------------------------------------------ the order of the awaits
\* the adjudication calls of this search that have returned or thrown
LLMSettled == Adjudicated \cup observed.llmFailed

\* the adjudication calls of this search issued and not yet settled
LLMInFlight == Len(llmCalls) - Cardinality(LLMSettled)

\* C21: no detector call is issued before the minimum-rear-yard filter has
\* been applied to all candidates; no adjudication call is issued while a
\* detector call or a has-pool write of the search is in flight; and at most
\* one adjudication call of a search is in flight at any time.
C21_StagesStrictlySequential ==
    /\ pc \in {"count", "enrich", "query", "rear"} => \A p \in PIDs : cvCalls[p] = 0
    /\ \A p \in PIDs : cvCalls[p] > 0 =>
          /\ Len(rear.results) = Len(rear.rows)
          /\ sqlResults = MinRearFilter(rear.results, request.filters.minRearSqft)
          /\ p \in Ids(sqlResults)
    /\ Len(llmCalls) > 0 =>
          /\ cv.inflight = {}
          /\ Len(cv.results) = Len(sqlResults)
          /\ pc \notin {"cv_cache", "cv_batch", "cv_write"}
    /\ LLMInFlight \in {0, 1}
    /\ LLMInFlight = 1 <=> pc = "llm_call"

C21_Witness ==
    /\ pc = "llm_call"
    /\ Len(llmCalls) = 2
    /\ \E p \in PIDs : cvCalls[p] > 0

\* ------------------------------------------ a search with two detector batches
\* the parcels of FlushTable, none or all but the first without a fresh detection
InitBatch ==
    /\ InitRun
    /\ config = DefaultConfig
    /\ parcels = FlushTable
    /\ cv_detections \in {[p \in PIDs |-> "none"],
                          [p \in PIDs |-> IF p = 1 THEN "pool" ELSE "none"]}
    /\ aoiOthers = MIN_EXISTING_PARCELS
    /\ edgeIn = NoEdgeInput
    /\ edgeOut = "unset"
    /\ GatewayIdle
    /\ IoUIdle

NextBatch ==
    \/ \E req \in ChannelRequests : StartSearch(req)
    \/ PipelineOf(FlushEnv)

SpecBatch == InitBatch /\ [][NextBatch]_vars

\* the cv_analysis snapshots of the search, in emission order
CvSnaps == SelectSeq(emitted, LAMBDA s : s.stage = "cv_analysis")

\* C22: at most 5 detector calls of a search are in flight at once; the
\* has-pool values of a batch are persisted and its cv_analysis snapshot is
\* emitted only after every call of the batch has completed and before any
\* call of the next batch starts; processed grows by the batch size with each
\* snapshot and equals total in the last one, whatever the completion order.
C22_DetectionInBatchesOfFive ==
    /\ [](Cardinality(cv.inflight) <= CV_BATCH_SIZE)
    /\ [](pc = "cv_write" => cv.inflight = {})
    /\ [][(pc = "cv_write" /\ faults' = faults) =>
             \A k \in cv.i..Len(cv.results) :
                 cv.results[k].has_pool # "null" =>
                     parcels'[cv.results[k].id].has_pool = cv.results[k].has_pool]_vars
    /\ [][(Len(CvSnaps') > Len(CvSnaps) /\ CvSnaps'[Len(CvSnaps')].processed > 0) =>
             /\ cv.inflight = {}
             /\ \A p \in Ids(CvBatch(Machine)) : cv.outcome[p] # "pending"
             /\ \/ pc = "cv_write"
                \/ /\ pc = "cv_batch"
                   /\ \A k \in 1..Len(BatchResults(Machine)) :
                          BatchResults(Machine)[k].has_pool = "null"]_vars
    /\ [][(\E p \in PIDs : cvCalls'[p] # cvCalls[p]) =>
             /\ cv.inflight = {}
             /\ cv'.inflight = {p \in PIDs : cvCalls'[p] # cvCalls[p]}
             /\ cv'.inflight \subseteq
                   {sqlResults'[k].id : k \in (cv'.processed + 1)..Len(sqlResults')}
             /\ pc = "cv_cache" \/ Len(CvSnaps') > Len(CvSnaps)]_vars
    /\ [](\A i \in 1..Len(CvSnaps) :
             /\ CvSnaps[i].total = Len(sqlResults)
             /\ CvSnaps[i].processed = Min((i - 1) * CV_BATCH_SIZE, Len(sqlResults)))
    /\ [](pc \in {"llm_call", "llm_flush", "llm_usage", "final"} =>
             CvSnaps[Len(CvSnaps)].processed = Len(sqlResults))

C22_Witness ==
    /\ pc = "done"
    /\ Len(CvSnaps) = 3
    /\ CvSnaps[2].processed = CV_BATCH_SIZE
    /\ CvSnaps[3].processed = CV_BATCH_SIZE + 1
    /\ observed.cvFailed # {}

\* the parcel with id p as calculateRearYardsInBatches holds it
RearResult(p) == rear.results[CHOOSE k \in 1..Len(rear.results) : rear.results[k].id = p]

\* C23: the rear-yard step never yields a negative area; a parcel whose
\* computation throws or returns nothing gets area 0 and approximate = true
\* and stays among the candidates; the minimum-rear-yard filter is applied
\* once, after all candidates have values; so such a parcel is never passed
\* on with a positive area and is excluded for every threshold above 0.
C23_RearYardFailsSafe ==
    /\ \A k \in 1..Len(rear.results) : rear.results[k].rear_free_sqft >= 0
    /\ \A k \in 1..Len(sqlResults) : sqlResults[k].rear_free_sqft >= 0
    /\ \A p \in observed.rearFailed :
          /\ p \in Ids(rear.results)
          /\ RearResult(p).rear_free_sqft = 0
          /\ RearResult(p).rear_yard_approximate
    /\ pc = "rear" => sqlResults = <<>>
    /\ Len(sqlResults) > 0 =>
          /\ Ids(rear.results) = Range(rear.rows)
          /\ sqlResults = MinRearFilter(rear.results, request.filters.minRearSqft)
    /\ \A p \in observed.rearFailed \cap Ids(sqlResults) :
          /\ PipelineParcel(p).rear_free_sqft = 0
          /\ request.filters.minRearSqft <= 0

C23_Witness ==
    /\ pc = "done"
    /\ request.filters.minRearSqft > 0
    /\ observed.rearFailed # {}
    /\ Len(sqlResults) > 0
    /\ Len(rear.results) > Len(sqlResults)

\* ------------------------------------- a search over parcels with verdicts
\* stored parcels that carry the verdict of an earlier search or of the seed
FrameRows == {StoredRow(10, "true", "true"), StoredRow(12, "true", "null"),
              StoredRow(12, "true", "false")}

InitFrame ==
    /\ InitRun
    /\ config = DefaultConfig
    /\ parcels \in TablesOf(FrameRows, AbsentRow)
    /\ cv_detections = [p \in PIDs |-> "pool"]
    /\ aoiOthers \in {0, MIN_EXISTING_PARCELS}
    /\ edgeIn = NoEdgeInput
    /\ edgeOut = "unset"
    /\ GatewayIdle
    /\ IoUIdle

NextFrame ==
    \/ \E req \in ChannelRequests : StartSearch(req)
    \/ PipelineOf(FlushEnv)

SpecFrame == InitFrame /\ [][NextFrame]_vars

\* C24: a search writes qualifies (and rationale) only for parcels on which
\* one of its own adjudication calls succeeded; every other parcel of the
\* final result carries the verdict it had in the store when the search was
\* started.
C24_OnlyAdjudicatedVerdictsChange ==
    /\ [][\A p \in PIDs :
             parcels'[p].qualifies # parcels[p].qualifies => verdicts[p] # "none"]_vars
    /\ [](pc = "done" =>
             LET results == emitted[Len(emitted)].results
             IN \A k \in 1..Len(results) :
                    results[k].id \notin Adjudicated =>
                        results[k].qualifies = observed.prior[results[k].id])

\* C25: no search is started with a negative minimum rear-yard threshold: a
\* request whose filters.minRearSqft is below 0 is rejected by validation, so
\* minRearSqft (and with it the classifier's tolerance) is at least 0 in every
\* running pipeline.
C25_ThresholdNeverNegative ==
    /\ pc # "idle" => request.filters.minRearSqft >= 0
    /\ (reply.sent /\ reply.body.filters = "minRearSqftNegative") =>
          /\ ~reply.hasSearchId
          /\ ~searchStates.exists
          /\ pc = "idle"

\* ------------------------------------------- the life of a registry entry
\* one stored parcel without a rear-yard area
LifeTable == [p \in PIDs |-> IF p = 1 THEN StoredRow(NoSqft, "null", "null") ELSE AbsentRow]

InitLife ==
    /\ InitRun
    /\ config = DefaultConfig
    /\ parcels = LifeTable
    /\ cv_detections = [p \in PIDs |-> "none"]
    /\ aoiOthers = 0
    /\ edgeIn = NoEdgeInput
    /\ edgeOut = "unset"
    /\ GatewayIdle
    /\ IoUIdle

\* Every awaited call of the pipeline settles and every armed timer fires;
\* consumers attach and leave as they please.
SpecLife ==
    /\ InitLife
    /\ [][NextChannel]_vars
    /\ WF_vars(PipelineOf(ChannelEnv))
    /\ WF_vars(CleanupTimer)

\* C26: the in-memory state of a search is eventually discarded once the
\* search has no attached consumer, a search to which no consumer ever
\* attached included; once discarded, a progress request for the search is
\* answered 404.
C26_StateEventuallyDiscarded ==
    /\ [](searchStates.exists /\ searchStates.clients = {}
            => <>(~searchStates.exists \/ searchStates.clients # {}))
    /\ []((pc # "idle" /\ ~searchStates.exists) => ProgressStatus = 404)

\* ------------------------------------------------ searches under a budget
\* LLM_BUDGET_PER_SEARCH is z.coerce.number(): any number, in cents here
Budgets == {-10, 0, 15, LLM_BUDGET_PER_SEARCH}

InitBudget ==
    /\ InitRun
    /\ config \in {[LLM_BUDGET_PER_SEARCH |-> b] : b \in Budgets}
    /\ parcels = FlushTable
    /\ cv_detections = [p \in PIDs |-> "pool"]
    /\ aoiOthers = MIN_EXISTING_PARCELS
    /\ edgeIn = NoEdgeInput
    /\ edgeOut = "unset"
    /\ GatewayIdle
    /\ IoUIdle

SpecBudget == InitBudget /\ [][NextFlush]_vars

\* what the last adjudication call issued has added to the cumulative cost
LastCallCost == llm.totalCost - llmCalls[Len(llmCalls)].costBefore

\* C27: when an adjudication call is issued the cumulative cost is strictly
\* below the budget, so the total cost of a search exceeds the budget by less
\* than the cost of one call; with a budget of 0 or less no call is issued.
C27_BudgetOvershootBelowOneCall ==
    /\ \A i \in 1..Len(llmCalls) : llmCalls[i].costBefore < config.LLM_BUDGET_PER_SEARCH
    /\ Len(llmCalls) > 0 =>
          /\ LastCallCost \in Costs \cup {0}
          /\ llm.totalCost > config.LLM_BUDGET_PER_SEARCH =>
                llm.totalCost - config.LLM_BUDGET_PER_SEARCH < LastCallCost
    /\ Len(llmCalls) = 0 => llm.totalCost = 0
    /\ config.LLM_BUDGET_PER_SEARCH <= 0 => llmCalls = <<>>

C27_Witness ==
    /\ pc = "done"
    /\ config.LLM_BUDGET_PER_SEARCH = 15
    /\ llm.totalCost = 20
    /\ Len(llmCalls) = 2
    /\ Len(llm.sorted) > 2

\* ------------------------------------------- cleanup against consumers
\* the number of snapshots emitted when connection c stopped being written to
LastSeen(c) == received[c].from + Len(received[c].events) - 1

\* C28: the progress state of a search is never deleted while a consumer is
\* attached: the entry goes only in a step taken with an empty consumer set,
\* whatever the interleaving of attaches, disconnects and timers.
C28_NoCleanupWhileAttached ==
    /\ [](conns # {} => searchStates.exists /\ searchStates.clients = conns)
    /\ [][(searchStates.exists /\ ~searchStates'.exists)
            => (searchStates.clients = {} /\ conns = {} /\ timers' = timers - 1)]_vars

\* connection 1 left (arming the timer) before connection 2 attached, the
\* timer has fired since, and the entry is still there
C28_Witness ==
    /\ conns = {2}
    /\ timers = 0
    /\ searchStates.exists
    /\ searchStates.clients = {2}
    /\ received[1].events # <<>>
    /\ LastSeen(1) < received[2].from

\* ------------------------------------------------- a failure on the stream
\* the error snapshots written to connection c after the one sent on attach
BroadcastErrors(c) ==
    IF received[c].events = <<>> THEN <<>>
    ELSE SelectSeq(Tail(received[c].events), LAMBDA s : s.stage = "error")

\* the snapshots emitted before the pipeline failed
BeforeFailure == SelectSeq(emitted, LAMBDA s : s.stage # "error")

\* C29: when the pipeline fails, each consumer attached at that time receives
\* exactly one error snapshot: the failure is not reported once by the catch
\* block of executeSearch and once more by the catch handler of the route.
C29_OneErrorSnapshot ==
    \A c \in 1..MaxConns :
        /\ Len(BroadcastErrors(c)) <= 1
        /\ (pc = "failed" /\ c \in conns /\ received[c].events # <<>>
               /\ received[c].from <= Len(BeforeFailure))
              => Len(BroadcastErrors(c)) = 1

\* ------------------------------------------------ the approximate flag
\* executeSearch has returned from identifyEdgeCases
EdgeCasesIdentified == pc \in {"llm_call", "llm_flush", "llm_usage", "final", "done"}

\* C30: a parcel's approximate flag is true exactly when its rear-yard area
\* was computed during this search: a parcel with a stored area is not
\* approximate and the estimator is not called for it, a parcel whose area
\* was computed is approximate whatever the estimator returned, and every
\* such parcel that survives the filter is classified as an edge case.
C30_ApproximateIffComputed ==
    /\ \A k \in 1..Len(rear.results) :
          LET r == rear.results[k]
          IN /\ r.rear_yard_approximate <=> r.id \in observed.rearCalled
             /\ parcels[r.id].rear_free_sqft # NoSqft
                  => /\ r.id \notin observed.rearCalled
                     /\ ~r.rear_yard_approximate
                     /\ r.rear_free_sqft = parcels[r.id].rear_free_sqft
             /\ parcels[r.id].rear_free_sqft = NoSqft => r.id \in observed.rearCalled
    /\ observed.rearCalled \subseteq Ids(rear.results)
    /\ \A k \in 1..Len(sqlResults) :
          sqlResults[k].id \in observed.rearCalled
              => /\ sqlResults[k].rear_yard_approximate
                 /\ IsEdgeCase(sqlResults[k], request.filters)
                 /\ EdgeCasesIdentified => sqlResults[k].id \in Ids(llm.sorted)

\* a computed area that is an edge case for no other reason, next to a
\* stored one that is none
C30_Witness ==
    /\ pc = "done"
    /\ request.filters = [minRearSqft |-> 0, hasPool |-> "undefined"]
    /\ \E p \in observed.rearCalled \ observed.rearFailed :
          /\ p \in Ids(llm.sorted)
          /\ PipelineParcel(p).rear_free_sqft = 11
    /\ \E p \in Ids(sqlResults) \ observed.rearCalled :
          /\ p \notin Ids(llm.sorted)
          /\ ~PipelineParcel(p).rear_yard_approximate
====
